---- MODULE Spec2Model ----
(***************************************************************************)
(* The vote ledger of the secure voting system: the hash-chained           *)
(* Blockchain of blockchain_ledger.py and the way app.py drives it.        *)
(*                                                                         *)
(* Python objects are modelled with their sharing: a list is a cell of     *)
(* `heap`, and a block's 'votes' and the ledger's current_transactions     *)
(* are references (indices) into it, so that two names for one list see    *)
(* each other's appends, as in the source.                                 *)
(*                                                                         *)
(* Strings are sequences of numbers.  hashlib.sha256(..).hexdigest() is    *)
(* modelled by Sha256Hex: its leading hex digits are a small mixing        *)
(* function of the message (so that the proof search is short) and the     *)
(* rest of the digest is the message itself (no two messages collide).     *)
(***************************************************************************)
EXTENDS Integers, Sequences, FiniteSets, TLC

\* Bounds of the model.
MaxChain == 3
MaxVotes == 3
MaxTime == 2
DigestRange == 7
MaxArgLen == 3
MaxCalls == 2
MaxLastProof == 120
MaxRequests == 2
MaxPlainLen == 2

\* The encrypted_vote and voter_hash strings handed to the ledger.
Envelopes == {1, 2}
Handles == {1}

\* The usernames that may register, and the requests the server handles.
Users == {"alice", "bob"}
Requests == 1..MaxRequests

VARIABLES
    chain,                 \* Blockchain.chain: sequence of blocks
    current_transactions,  \* Blockchain.current_transactions: a list reference
    heap,                  \* the list objects: heap[r] is the content of list r
    now,                   \* the last value time() returned
    submitted,             \* history: every accepted record with the index it was promised
                           \* and the user whose request submitted it ("" for a direct call)
    ret,                   \* the last call (ledger or results route) and what it returned
    in_chain,              \* argument of is_chain_valid (pure-function checks)
    in_last_proof,         \* argument of proof_of_vote (pure-function checks)
    out_valid,             \* what is_chain_valid returned
    out_proofs,            \* what the calls of proof_of_vote returned, in order
    users_db,              \* app.users_db: per username, registered and has_voted
    req,                   \* the vote requests in progress: position and locals of each
    crypt,                 \* an encrypt_vote / decrypt_vote exchange: arguments and results
    login_attempts         \* LoginManager.login_attempts: per username, its entry if any

ledger_vars == <<chain, current_transactions, heap, now, submitted, ret>>
pure_vars == <<in_chain, in_last_proof, out_valid, out_proofs, crypt, login_attempts>>
app_vars == <<users_db, req>>
vars == <<chain, current_transactions, heap, now, submitted, ret,
          in_chain, in_last_proof, out_valid, out_proofs, users_db, req,
          crypt, login_attempts>>

----------------------------------------------------------------------------
(* Strings and digests *)

\* None / the empty string: what `previous_hash or ...` treats as missing.
None == <<>>

\* str(n) of a non-negative integer: its decimal digits.
RECURSIVE Digits(_)
Digits(n) == IF n < 10 THEN <<n>> ELSE Digits(n \div 10) \o <<n % 10>>

\* The mixing function behind the digest's leading hex digits.
RECURSIVE MixFrom(_, _)
MixFrom(h, msg) ==
    IF msg = <<>> THEN h
    ELSE MixFrom((h * 2 + Head(msg) + 1) % DigestRange, Tail(msg))

Mix(msg) == MixFrom(0, msg)

\* The four leading hex digits of the digest.
HexPrefix(v) == <<(v \div 4096) % 16, (v \div 256) % 16, (v \div 16) % 16, v % 16>>

\* hashlib.sha256(msg).hexdigest()
Sha256Hex(msg) == HexPrefix(Mix(msg)) \o msg

DIFFICULTY_TARGET == <<0, 0, 0, 0>>

----------------------------------------------------------------------------
(* Blockchain: static methods *)

\* json.dumps(vote, sort_keys=True): keys encrypted_vote, submission_time, voter_hash.
JsonDumpsVote(v) == <<v.encrypted_vote, v.submission_time, v.voter_hash>>

RECURSIVE JsonDumpsVotes(_)
JsonDumpsVotes(vs) ==
    IF vs = <<>> THEN <<>> ELSE JsonDumpsVote(Head(vs)) \o JsonDumpsVotes(Tail(vs))

\* json.dumps(block, sort_keys=True): keys index, previous_hash, proof,
\* timestamp, votes.  `block` is a block with its votes list read out.
JsonDumps(block) ==
    <<block.index, Len(block.previous_hash)>> \o block.previous_hash
        \o <<block.proof, block.timestamp, Len(block.votes)>>
        \o JsonDumpsVotes(block.votes)

Hash(block) == Sha256Hex(JsonDumps(block))

ValidProof(last_proof, proof) ==
    LET guess == Digits(last_proof) \o Digits(proof)
        guess_hash == Sha256Hex(guess)
    IN  SubSeq(guess_hash, 1, Len(DIFFICULTY_TARGET)) = DIFFICULTY_TARGET

\* Mutant: the loop condition inverted (searches for a proof that is not valid).
RECURSIVE ProofSearchInverted(_, _)
ProofSearchInverted(last_proof, proof) ==
    IF ~ValidProof(last_proof, proof) THEN proof
    ELSE ProofSearchInverted(last_proof, proof + 1)

\* The while loop of proof_of_vote, entered with the candidate `proof`.
RECURSIVE ProofSearch(_, _)
ProofSearch(last_proof, proof) ==
    IF ValidProof(last_proof, proof) THEN proof
    ELSE ProofSearch(last_proof, proof + 1)

\* Mutant: the search starts at 1.
ProofOfVoteFromOne(last_proof) == ProofSearch(last_proof, 1)

ProofOfVote(last_proof) == ProofSearch(last_proof, 0)

\* Mutant: the loop checks the hash link only, not the proof.
RECURSIVE IsChainValidFromHashOnly(_, _)
IsChainValidFromHashOnly(c, current_index) ==
    IF current_index < Len(c)
    THEN LET block == c[current_index + 1]
             last_block == c[current_index]
         IN  IF block.previous_hash # Hash(last_block) THEN FALSE
             ELSE IsChainValidFromHashOnly(c, current_index + 1)
    ELSE TRUE

\* The while loop of is_chain_valid, entered with current_index (0-based,
\* as in the source: the block looked at is c[current_index + 1] here).
RECURSIVE IsChainValidFrom(_, _)
IsChainValidFrom(c, current_index) ==
    IF current_index < Len(c)
    THEN LET block == c[current_index + 1]
             last_block == c[current_index]
         IN  IF block.previous_hash # Hash(last_block) THEN FALSE
             ELSE IF ~ValidProof(last_block.proof, block.proof) THEN FALSE
             ELSE IsChainValidFrom(c, current_index + 1)
    ELSE TRUE

IsChainValid(c) == IsChainValidFrom(c, 1)

----------------------------------------------------------------------------
(* Blockchain: the object *)

\* A block as a reader sees it: its votes list read out of the heap.
Deref(block) == [block EXCEPT !.votes = heap[block.votes]]

DerefChain == [i \in 1..Len(chain) |-> Deref(chain[i])]

\* The records of the pending queue.
Pending == heap[current_transactions]

LastBlock == chain[Len(chain)]

\* The last block of the ledger `st` = [chain, current_transactions, heap],
\* votes read out.
LastOf(st) ==
    [st.chain[Len(st.chain)] EXCEPT !.votes = st.heap[st.chain[Len(st.chain)].votes]]

\* Mutant: the block is numbered from 0.
BlockOfZeroBased(st, proof, previous_hash, t) ==
    [index |-> Len(st.chain),
     timestamp |-> t,
     votes |-> st.current_transactions,
     proof |-> proof,
     previous_hash |-> IF previous_hash # None THEN previous_hash ELSE Hash(LastOf(st))]

\* Mutant: the block gets a list of its own, empty, instead of the pending list.
BlockOfFreshVotes(st, proof, previous_hash, t) ==
    [index |-> Len(st.chain) + 1,
     timestamp |-> t,
     votes |-> Len(st.heap) + 1,
     proof |-> proof,
     previous_hash |-> IF previous_hash # None THEN previous_hash ELSE Hash(LastOf(st))]

\* The dict new_block builds on the ledger `st` at time t.
BlockOf(st, proof, previous_hash, t) ==
    [index |-> Len(st.chain) + 1,
     timestamp |-> t,
     votes |-> st.current_transactions,
     proof |-> proof,
     previous_hash |-> IF previous_hash # None THEN previous_hash ELSE Hash(LastOf(st))]

\* Mutant: current_transactions is not reset.
NewBlockOnNoReset(st, proof, previous_hash, t) ==
    LET block == BlockOf(st, proof, previous_hash, t)
    IN  [chain |-> Append(st.chain, block),
         current_transactions |-> st.current_transactions,
         heap |-> Append(st.heap, <<>>),
         block |-> block]

\* Mutant: the pending list is emptied in place (clear()) instead of replaced.
NewBlockOnClear(st, proof, previous_hash, t) ==
    LET block == BlockOf(st, proof, previous_hash, t)
    IN  [chain |-> Append(st.chain, block),
         current_transactions |-> st.current_transactions,
         heap |-> [Append(st.heap, <<>>) EXCEPT ![st.current_transactions] = <<>>],
         block |-> block]

\* new_block on the ledger `st` at time t: the ledger after the call (the
\* pending queue is a new empty list), and the block returned.
NewBlockOn(st, proof, previous_hash, t) ==
    LET block == BlockOf(st, proof, previous_hash, t)
    IN  [chain |-> Append(st.chain, block),
         current_transactions |-> Len(st.heap) + 1,
         heap |-> Append(st.heap, <<>>),
         block |-> block]

\* Blockchain(): empty chain, empty current_transactions, then the genesis block.
Constructed ==
    NewBlockOn([chain |-> <<>>, current_transactions |-> 1, heap |-> << <<>> >>],
               100, <<1>>, 0)

LedgerInit ==
    /\ chain = Constructed.chain
    /\ current_transactions = Constructed.current_transactions
    /\ heap = Constructed.heap
    /\ now = 0
    /\ submitted = <<>>
    /\ ret = [op |-> "init", val |-> Constructed.block]

\* No encrypt_vote call made yet.
CryptIdle ==
    [pc |-> "idle", vote_data |-> <<>>, iv |-> <<>>, encrypted |-> 0,
     received |-> 0, decrypted |-> [raised |-> FALSE, value |-> <<>>]]

\* A username that is not a key of login_attempts.
Untracked == [tracked |-> FALSE, count |-> 0, last_attempt |-> None, locked |-> FALSE]

\* LoginManager(): login_attempts = {}
NoAttempts == [u \in Users |-> Untracked]

PureIdle ==
    /\ in_chain = <<>>
    /\ in_last_proof = 0
    /\ out_valid = "unset"
    /\ out_proofs = <<>>
    /\ crypt = CryptIdle
    /\ login_attempts = NoAttempts

\* users_db = {} and no request in progress.
NoUser == [registered |-> FALSE, has_voted |-> FALSE]

IdleRequest ==
    [pc |-> "idle", username |-> "", encrypted_vote |-> 0, voter_hash |-> 0,
     pending_list |-> 0, last_block |-> <<>>, proof |-> 0, previous_hash |-> None,
     block |-> <<>>, pending_at_seal |-> <<>>]

AppIdle ==
    /\ users_db = [u \in Users |-> NoUser]
    /\ req = [r \in Requests |-> IdleRequest]

Init == LedgerInit /\ PureIdle /\ AppIdle

\* Mutant: the last block's own index is returned.
SubmitResultLastIndex == LastBlock.index

\* What new_vote_transaction returns.
SubmitResult == LastBlock.index + 1

\* Mutant: the record is inserted at the head of the list.
SubmitAtFront(encrypted_vote, voter_hash) ==
    /\ Len(submitted) < MaxVotes
    /\ \E t \in now..MaxTime :
          LET record == [encrypted_vote |-> encrypted_vote,
                         voter_hash |-> voter_hash,
                         submission_time |-> t]
              result == SubmitResult
          IN  /\ heap' = [heap EXCEPT ![current_transactions] = <<record>> \o @]
              /\ now' = t
              /\ ret' = [op |-> "new_vote_transaction", val |-> result]
              /\ submitted' = Append(submitted, [record |-> record, promised |-> result,
                                                  by |-> ""])
    /\ UNCHANGED <<chain, current_transactions>>
    /\ UNCHANGED pure_vars
    /\ UNCHANGED app_vars

\* new_vote_transaction(encrypted_vote, voter_hash)
Submit(encrypted_vote, voter_hash) ==
    /\ Len(submitted) < MaxVotes
    /\ \E t \in now..MaxTime :
          LET record == [encrypted_vote |-> encrypted_vote,
                         voter_hash |-> voter_hash,
                         submission_time |-> t]
              result == SubmitResult
          IN  /\ heap' = [heap EXCEPT ![current_transactions] = Append(@, record)]
              /\ now' = t
              /\ ret' = [op |-> "new_vote_transaction", val |-> result]
              /\ submitted' = Append(submitted, [record |-> record, promised |-> result,
                                                  by |-> ""])
    /\ UNCHANGED <<chain, current_transactions>>
    /\ UNCHANGED pure_vars
    /\ UNCHANGED app_vars

\* The sealing step of the vote route: read the last block, search the
\* proof, hash the last block, new_block.
Seal ==
    /\ Len(chain) < MaxChain
    /\ \E t \in now..MaxTime :
          LET last_block == LastBlock
              last_proof == last_block.proof
              proof == ProofOfVote(last_proof)
              previous_hash == Hash(Deref(last_block))
              after == NewBlockOn([chain |-> chain,
                                   current_transactions |-> current_transactions,
                                   heap |-> heap],
                                  proof, previous_hash, t)
          IN  /\ chain' = after.chain
              /\ current_transactions' = after.current_transactions
              /\ heap' = after.heap
              /\ now' = t
              /\ ret' = [op |-> "new_block", val |-> after.block]
    /\ UNCHANGED submitted
    /\ UNCHANGED pure_vars
    /\ UNCHANGED app_vars

Next ==
    \/ \E e \in Envelopes, h \in Handles : Submit(e, h)
    \/ Seal

Spec == Init /\ [][Next]_vars

----------------------------------------------------------------------------
(* is_chain_valid and proof_of_vote as functions of their arguments *)

\* The chains is_chain_valid is tried on: valid and invalid ones, of every
\* length up to MaxArgLen.  Each block is picked by its votes, its proof and
\* its previous_hash: "1", the hash of the block before it, or the hash of
\* the first block.
ArgVotes ==
    {<<>>, <<[encrypted_vote |-> 1, voter_hash |-> 1, submission_time |-> 0]>>}

ArgProofs == {100, 0, ProofOfVote(100), ProofOfVote(ProofOfVote(100))}

ArgPicks == [votes : ArgVotes, proof : ArgProofs, link : {"one", "prev", "first"}]

ArgBlock(c, pick) ==
    [index |-> Len(c) + 1,
     timestamp |-> 0,
     votes |-> pick.votes,
     proof |-> pick.proof,
     previous_hash |->
         IF c = <<>> \/ pick.link = "one" THEN <<1>>
         ELSE IF pick.link = "prev" THEN Hash(c[Len(c)])
         ELSE Hash(c[1])]

RECURSIVE ArgChain(_, _)
ArgChain(n, picks) ==
    IF n = 0 THEN <<>>
    ELSE LET c == ArgChain(n - 1, picks) IN Append(c, ArgBlock(c, picks[n]))

ValidateInit ==
    /\ LedgerInit
    /\ \E n \in 0..MaxArgLen : \E picks \in [1..n -> ArgPicks] :
          in_chain = ArgChain(n, picks)
    /\ in_last_proof = 0
    /\ out_valid = "unset"
    /\ out_proofs = <<>>
    /\ crypt = CryptIdle
    /\ login_attempts = NoAttempts
    /\ AppIdle

\* A call is_chain_valid(in_chain).
CallIsChainValid ==
    /\ out_valid = "unset"
    /\ out_valid' = IF IsChainValid(in_chain) THEN "True" ELSE "False"
    /\ UNCHANGED <<in_chain, in_last_proof, out_proofs, crypt, login_attempts>>
    /\ UNCHANGED ledger_vars
    /\ UNCHANGED app_vars

ValidateNext == CallIsChainValid

SpecValidate == ValidateInit /\ [][ValidateNext]_vars

ProofInit ==
    /\ LedgerInit
    /\ in_chain = <<>>
    /\ in_last_proof \in 0..MaxLastProof
    /\ out_valid = "unset"
    /\ out_proofs = <<>>
    /\ crypt = CryptIdle
    /\ login_attempts = NoAttempts
    /\ AppIdle

\* A call proof_of_vote(in_last_proof).
CallProofOfVote ==
    /\ Len(out_proofs) < MaxCalls
    /\ out_proofs' = Append(out_proofs, ProofOfVote(in_last_proof))
    /\ UNCHANGED <<in_chain, in_last_proof, out_valid, crypt, login_attempts>>
    /\ UNCHANGED ledger_vars
    /\ UNCHANGED app_vars

ProofNext == CallProofOfVote

SpecProof == ProofInit /\ [][ProofNext]_vars


\* Mutant: the proof found is kept in the pending list.
ProofOfVoteOnKeepsProof(st, last_proof) ==
    [chain |-> st.chain,
     current_transactions |-> st.current_transactions,
     heap |-> [st.heap EXCEPT ![st.current_transactions] =
                  Append(@, [encrypted_vote |-> 0, voter_hash |-> 0,
                             submission_time |-> ProofOfVote(last_proof)])],
     proof |-> ProofOfVote(last_proof)]

\* proof_of_vote(last_proof) as a method of the ledger `st`: the ledger after
\* the call and the proof returned.  The loop uses its two locals and the
\* static valid_proof only.
ProofOfVoteOn(st, last_proof) ==
    [chain |-> st.chain,
     current_transactions |-> st.current_transactions,
     heap |-> st.heap,
     proof |-> ProofOfVote(last_proof)]

\* The ledger in use, and calls of proof_of_vote with one argument at any
\* moment of its life.
MineInit ==
    /\ chain = Constructed.chain
    /\ current_transactions = Constructed.current_transactions
    /\ heap = Constructed.heap
    /\ now = MaxTime
    /\ submitted = <<>>
    /\ ret = [op |-> "init", val |-> Constructed.block]
    /\ in_chain = <<>>
    /\ in_last_proof \in ArgProofs
    /\ out_valid = "unset"
    /\ out_proofs = <<>>
    /\ crypt = CryptIdle
    /\ login_attempts = NoAttempts
    /\ AppIdle

\* blockchain.proof_of_vote(in_last_proof)
Mine ==
    /\ Len(out_proofs) < MaxCalls
    /\ \E after \in {ProofOfVoteOn([chain |-> chain,
                                     current_transactions |-> current_transactions,
                                     heap |-> heap],
                                    in_last_proof)} :
          /\ chain' = after.chain
          /\ current_transactions' = after.current_transactions
          /\ heap' = after.heap
          /\ out_proofs' = Append(out_proofs, after.proof)
          /\ ret' = [op |-> "proof_of_vote", val |-> after.proof]
    /\ UNCHANGED <<now, submitted>>
    /\ UNCHANGED <<in_chain, in_last_proof, out_valid, crypt, login_attempts>>
    /\ UNCHANGED app_vars

MineNext ==
    \/ \E e \in Envelopes, h \in Handles : Submit(e, h)
    \/ Seal
    \/ Mine

SpecMine == MineInit /\ [][MineNext]_vars

----------------------------------------------------------------------------
(* The web application: the register and vote routes, served by threads *)
(* that share the ledger and users_db without a lock.  A vote request   *)
(* is a sequence of steps, one per access to the shared objects; the    *)
(* steps of different requests interleave.  `pending_at_seal` is a      *)
(* history field: the pending records when the request read the last    *)
(* block to seal.                                                       *)

VOTING_OPTIONS == {"Candidate A - Democratic Party", "Candidate B - Republican Party",
                   "Candidate C - Independent", "Abstain"}

\* What the form may carry as 'candidate': an option, nothing, or another string.
FormCandidates == {"Candidate A - Democratic Party", "Abstain", "", "Write-in"}

\* The session cookie of a request: no login, or a registered username.
Sessions == {""} \cup {u \in Users : users_db[u].registered}

\* POST /register with a new username and an acceptable password.
Register(u) ==
    /\ ~users_db[u].registered
    /\ users_db' = [users_db EXCEPT ![u] = [registered |-> TRUE, has_voted |-> FALSE]]
    /\ UNCHANGED req
    /\ UNCHANGED ledger_vars
    /\ UNCHANGED pure_vars

\* /vote up to the call of new_vote_transaction: the session and has_voted
\* checks, the candidate check, encrypt_vote and create_voter_hash.
VoteStart(r, session, method, candidate) ==
    /\ req[r].pc = "idle"
    /\ IF \/ session = ""
          \/ users_db[session].has_voted
          \/ method = "GET"
          \/ candidate = ""
          \/ candidate \notin VOTING_OPTIONS
       THEN req' = [req EXCEPT ![r].pc = "rejected", ![r].username = session]
       ELSE \E e \in Envelopes, h \in Handles :
               req' = [req EXCEPT ![r].pc = "submit", ![r].username = session,
                                  ![r].encrypted_vote = e, ![r].voter_hash = h]
    /\ UNCHANGED users_db
    /\ UNCHANGED ledger_vars
    /\ UNCHANGED pure_vars

\* new_vote_transaction, first half: self.current_transactions is read.
SubmitLoad(r) ==
    /\ req[r].pc = "submit"
    /\ req' = [req EXCEPT ![r].pc = "append", ![r].pending_list = current_transactions]
    /\ UNCHANGED users_db
    /\ UNCHANGED ledger_vars
    /\ UNCHANGED pure_vars

\* new_vote_transaction, second half: the record is appended to the list read.
SubmitAppend(r) ==
    /\ req[r].pc = "append"
    /\ \E t \in now..MaxTime :
          /\ heap' = [heap EXCEPT ![req[r].pending_list] =
                         Append(@, [encrypted_vote |-> req[r].encrypted_vote,
                                    voter_hash |-> req[r].voter_hash,
                                    submission_time |-> t])]
          /\ now' = t
    /\ req' = [req EXCEPT ![r].pc = "read_last"]
    /\ UNCHANGED <<chain, current_transactions, submitted, ret, users_db>>
    /\ UNCHANGED pure_vars

\* last_block = blockchain.last_block; last_proof = last_block['proof']
ReadLast(r) ==
    /\ req[r].pc = "read_last"
    /\ req' = [req EXCEPT ![r].pc = "mine", ![r].last_block = LastBlock,
                          ![r].pending_at_seal = Pending]
    /\ UNCHANGED users_db
    /\ UNCHANGED ledger_vars
    /\ UNCHANGED pure_vars

\* proof = proof_of_vote(last_proof); previous_hash = hash(last_block)
MineAndHash(r) ==
    /\ req[r].pc = "mine"
    /\ req' = [req EXCEPT ![r].pc = "build",
                          ![r].proof = ProofOfVote(req[r].last_block.proof),
                          ![r].previous_hash = Hash(Deref(req[r].last_block))]
    /\ UNCHANGED users_db
    /\ UNCHANGED ledger_vars
    /\ UNCHANGED pure_vars

\* new_block: the block dict is built.
NewBlockBuild(r) ==
    /\ req[r].pc = "build"
    /\ \E t \in now..MaxTime :
          /\ req' = [req EXCEPT ![r].pc = "reset",
                       ![r].block = BlockOf([chain |-> chain,
                                             current_transactions |-> current_transactions,
                                             heap |-> heap],
                                            req[r].proof, req[r].previous_hash, t)]
          /\ now' = t
    /\ UNCHANGED <<chain, current_transactions, heap, submitted, ret, users_db>>
    /\ UNCHANGED pure_vars

\* new_block: self.current_transactions = []
NewBlockReset(r) ==
    /\ req[r].pc = "reset"
    /\ heap' = Append(heap, <<>>)
    /\ current_transactions' = Len(heap) + 1
    /\ req' = [req EXCEPT ![r].pc = "chain_append"]
    /\ UNCHANGED <<chain, now, submitted, ret, users_db>>
    /\ UNCHANGED pure_vars

\* new_block: self.chain.append(block)
NewBlockAppend(r) ==
    /\ req[r].pc = "chain_append"
    /\ chain' = Append(chain, req[r].block)
    /\ req' = [req EXCEPT ![r].pc = "mark"]
    /\ UNCHANGED <<current_transactions, heap, now, submitted, ret, users_db>>
    /\ UNCHANGED pure_vars

\* users_db[username]['has_voted'] = True, and the redirect to the results.
MarkVoted(r) ==
    /\ req[r].pc = "mark"
    /\ users_db' = [users_db EXCEPT ![req[r].username].has_voted = TRUE]
    /\ req' = [req EXCEPT ![r].pc = "done"]
    /\ UNCHANGED ledger_vars
    /\ UNCHANGED pure_vars

AppNext ==
    \/ \E u \in Users : Register(u)
    \/ \E r \in Requests, session \in Sessions, method \in {"GET", "POST"},
          candidate \in FormCandidates : VoteStart(r, session, method, candidate)
    \/ \E r \in Requests : SubmitLoad(r)
    \/ \E r \in Requests : SubmitAppend(r)
    \/ \E r \in Requests : ReadLast(r)
    \/ \E r \in Requests : MineAndHash(r)
    \/ \E r \in Requests : NewBlockBuild(r)
    \/ \E r \in Requests : NewBlockReset(r)
    \/ \E r \in Requests : NewBlockAppend(r)
    \/ \E r \in Requests : MarkVoted(r)

SpecApp == Init /\ [][AppNext]_vars

----------------------------------------------------------------------------
(* VoteCrypto: AES in CBC mode with PKCS#7 padding, base64 and UTF-8.     *)
(* A byte is three bits wide and a cipher block is BlockSize bytes long.  *)
(* A str is a sequence of characters 0..6, of which 6 is the one          *)
(* non-ASCII character (two bytes in UTF-8).  A base64 str is the number  *)
(* whose octal digits, after a leading 1, are the bytes it encodes; the   *)
(* other numbers are strings that are not the base64 of anything.         *)

\* AES.block_size, in bytes (16 in AES; the blocks here are shorter).
BlockSize == 2

Bytes == 0..7
Chars == 0..6

\* What a call returns: a value, or the exception it raised.
Returned(v) == [raised |-> FALSE, value |-> v]
Raised == [raised |-> TRUE, value |-> <<>>]

\* Bitwise exclusive or.
RECURSIVE Xor(_, _)
Xor(a, b) ==
    IF a = 0 /\ b = 0 THEN 0 ELSE ((a + b) % 2) + 2 * Xor(a \div 2, b \div 2)

XorBlock(a, b) == [i \in 1..Len(a) |-> Xor(a[i], b[i])]

Reverse(s) == [i \in 1..Len(s) |-> s[Len(s) + 1 - i]]

\* str.encode('utf-8')
RECURSIVE Utf8Encode(_)
Utf8Encode(s) ==
    IF s = <<>> THEN <<>>
    ELSE (IF Head(s) < 6 THEN <<Head(s)>> ELSE <<6, 7>>) \o Utf8Encode(Tail(s))

\* bytes.decode('utf-8') raises on these.
RECURSIVE Utf8Valid(_)
Utf8Valid(bs) ==
    IF bs = <<>> THEN TRUE
    ELSE IF Head(bs) < 6 THEN Utf8Valid(Tail(bs))
    ELSE IF Head(bs) = 6 /\ Len(bs) >= 2 /\ bs[2] = 7 THEN Utf8Valid(Tail(Tail(bs)))
    ELSE FALSE

RECURSIVE Utf8Decode(_)
Utf8Decode(bs) ==
    IF bs = <<>> THEN <<>>
    ELSE IF Head(bs) < 6 THEN <<Head(bs)>> \o Utf8Decode(Tail(bs))
    ELSE <<6>> \o Utf8Decode(Tail(Tail(bs)))

\* base64.b64encode(bs).decode('utf-8')
RECURSIVE B64From(_, _)
B64From(n, bs) == IF bs = <<>> THEN n ELSE B64From(n * 8 + Head(bs), Tail(bs))

B64Encode(bs) == B64From(1, bs)

RECURSIVE B64Leading(_)
B64Leading(n) == IF n < 8 THEN n ELSE B64Leading(n \div 8)

\* base64.b64decode raises unless this holds.
B64Valid(n) == B64Leading(n) = 1

RECURSIVE B64Decode(_)
B64Decode(n) == IF n < 8 THEN <<>> ELSE B64Decode(n \div 8) \o <<n % 8>>

\* The AES block permutation under self.key, and its inverse: a substitution
\* chained through the block forwards, then backwards.
SBox == <<3, 6, 0, 5, 7, 1, 4, 2>>
Key == <<5, 2>>

Sub(x) == SBox[x + 1]
InvSub(y) == CHOOSE x \in Bytes : Sub(x) = y

RECURSIVE Pass(_, _)
Pass(p, prev) ==
    IF p = <<>> THEN <<>>
    ELSE LET c == Sub(Xor(Head(p), prev)) IN <<c>> \o Pass(Tail(p), c)

RECURSIVE InvPass(_, _)
InvPass(c, prev) ==
    IF c = <<>> THEN <<>>
    ELSE <<Xor(InvSub(Head(c)), prev)>> \o InvPass(Tail(c), Head(c))

EncryptBlock(p) == Pass(Reverse(Pass(p, Key[1])), Key[2])
DecryptBlock(c) == InvPass(Reverse(InvPass(c, Key[2])), Key[1])

\* cipher.encrypt / cipher.decrypt in CBC mode; prev is the IV at first.
RECURSIVE CbcEncrypt(_, _)
CbcEncrypt(data, prev) ==
    IF data = <<>> THEN <<>>
    ELSE LET c == EncryptBlock(XorBlock(SubSeq(data, 1, BlockSize), prev))
         IN  c \o CbcEncrypt(SubSeq(data, BlockSize + 1, Len(data)), c)

RECURSIVE CbcDecrypt(_, _)
CbcDecrypt(data, prev) ==
    IF data = <<>> THEN <<>>
    ELSE LET c == SubSeq(data, 1, BlockSize)
         IN  XorBlock(DecryptBlock(c), prev)
                 \o CbcDecrypt(SubSeq(data, BlockSize + 1, Len(data)), c)

\* Crypto.Util.Padding.pad / unpad (PKCS#7)
Pad(data) ==
    LET k == BlockSize - (Len(data) % BlockSize)
    IN  data \o [i \in 1..k |-> k]

UnpadOk(padded) ==
    /\ Len(padded) > 0
    /\ Len(padded) % BlockSize = 0
    /\ LET k == padded[Len(padded)]
       IN  /\ k >= 1
           /\ k <= BlockSize
           /\ k <= Len(padded)
           /\ \A i \in 1..k : padded[Len(padded) + 1 - i] = k

Unpad(padded) == SubSeq(padded, 1, Len(padded) - padded[Len(padded)])

\* Mutant: the IV is not stored with the ciphertext.
EncryptVoteNoIv(vote_data, iv) ==
    B64Encode(CbcEncrypt(Pad(Utf8Encode(vote_data)), iv))

\* encrypt_vote(vote_data), with the IV that get_random_bytes returned.
EncryptVote(vote_data, iv) ==
    LET data_bytes == Utf8Encode(vote_data)
        padded_data == Pad(data_bytes)
        encrypted_data == CbcEncrypt(padded_data, iv)
        combined_data == iv \o encrypted_data
    IN  B64Encode(combined_data)

\* decrypt_vote(encrypted_data): the str, or the exception.
DecryptVote(encrypted_data) ==
    IF ~B64Valid(encrypted_data) THEN Raised
    ELSE LET combined_data == B64Decode(encrypted_data)
             iv == SubSeq(combined_data, 1, BlockSize)
             encrypted_bytes == SubSeq(combined_data, BlockSize + 1, Len(combined_data))
         IN  IF Len(iv) # BlockSize \/ Len(encrypted_bytes) % BlockSize # 0 THEN Raised
             ELSE LET decrypted_padded == CbcDecrypt(encrypted_bytes, iv)
                  IN  IF ~UnpadOk(decrypted_padded) THEN Raised
                      ELSE LET decrypted_data == Unpad(decrypted_padded)
                           IN  IF ~Utf8Valid(decrypted_data) THEN Raised
                               ELSE Returned(Utf8Decode(decrypted_data))

\* The plaintexts and IVs the exchange is tried on.
RECURSIVE StrsOfLen(_)
StrsOfLen(n) ==
    IF n = 0 THEN {<<>>} ELSE {Append(s, c) : s \in StrsOfLen(n - 1), c \in Chars}

Plaintexts == UNION {StrsOfLen(n) : n \in 0..MaxPlainLen}

IVs == {[i \in 1..BlockSize |-> (b + i) % 8] : b \in {0, 3, 6}}

CryptoInit ==
    /\ LedgerInit
    /\ in_chain = <<>>
    /\ in_last_proof = 0
    /\ out_valid = "unset"
    /\ out_proofs = <<>>
    /\ \E pt \in Plaintexts : crypt = [CryptIdle EXCEPT !.vote_data = pt]
    /\ login_attempts = NoAttempts
    /\ AppIdle

\* A call encrypt_vote(crypt.vote_data); the result is stored as it is.
CallEncryptVote ==
    /\ crypt.pc = "idle"
    /\ \E iv \in IVs :
          LET encoded_data == EncryptVote(crypt.vote_data, iv)
          IN  crypt' = [crypt EXCEPT !.pc = "encrypted", !.iv = iv,
                                     !.encrypted = encoded_data,
                                     !.received = encoded_data]
    /\ UNCHANGED <<in_chain, in_last_proof, out_valid, out_proofs, login_attempts>>
    /\ UNCHANGED ledger_vars
    /\ UNCHANGED app_vars

\* The stored encrypted vote is changed: one bit of one byte of the IV or of
\* the ciphertext is flipped.
Tamper(pos, bit) ==
    /\ crypt.pc = "encrypted"
    /\ pos \in 1..Len(B64Decode(crypt.encrypted))
    /\ crypt' = [crypt EXCEPT !.pc = "tampered",
                    !.received = B64Encode([B64Decode(crypt.encrypted) EXCEPT
                                               ![pos] = Xor(@, bit)])]
    /\ UNCHANGED <<in_chain, in_last_proof, out_valid, out_proofs, login_attempts>>
    /\ UNCHANGED ledger_vars
    /\ UNCHANGED app_vars

\* A call decrypt_vote(crypt.received).
CallDecryptVote ==
    /\ crypt.pc \in {"encrypted", "tampered"}
    /\ crypt' = [crypt EXCEPT !.pc = "decrypted",
                              !.decrypted = DecryptVote(crypt.received)]
    /\ UNCHANGED <<in_chain, in_last_proof, out_valid, out_proofs, login_attempts>>
    /\ UNCHANGED ledger_vars
    /\ UNCHANGED app_vars

CryptoNext ==
    \/ CallEncryptVote
    \/ \E pos \in 1..(BlockSize * (MaxPlainLen + 2)), bit \in {1, 2, 4} : Tamper(pos, bit)
    \/ CallDecryptVote

SpecCrypto == CryptoInit /\ [][CryptoNext]_vars

----------------------------------------------------------------------------
(* The vote and results routes run one request at a time: a vote request  *)
(* runs to its end before the next request starts.  The ledger is also    *)
(* used directly (new_vote_transaction with any string, sealing apart     *)
(* from submitting), as its API allows.                                   *)

\* The text of json.dumps({'candidate': c, 'timestamp': ...}) is one
\* character naming c.  Character 5 is a JSON object without a 'candidate'
\* key; every other text is not JSON.
CandidateNames ==
    <<"Candidate A - Democratic Party", "Candidate B - Republican Party",
      "Candidate C - Independent", "Abstain", "Write-in">>

JsonDumpsVoteData(candidate) ==
    <<(CHOOSE i \in 1..Len(CandidateNames) : CandidateNames[i] = candidate) - 1>>

\* json.loads(text) followed by .get('candidate'): the candidate ("None" when
\* the key is missing), or the exception.
JsonLoadsCandidate(text) ==
    IF Len(text) = 1 /\ text[1] < Len(CandidateNames)
    THEN [raised |-> FALSE, candidate |-> CandidateNames[text[1] + 1]]
    ELSE IF Len(text) = 1 /\ text[1] = Len(CandidateNames)
    THEN [raised |-> FALSE, candidate |-> "None"]
    ELSE [raised |-> TRUE, candidate |-> ""]

\* Mutant: a record that cannot be processed ends the loop.
RECURSIVE CountVotesBreak(_, _)
CountVotesBreak(entries, acc) ==
    IF entries = <<>> THEN acc
    ELSE LET encrypted_data == Head(entries).encrypted_vote
             decrypted == DecryptVote(encrypted_data)
             vote_data == JsonLoadsCandidate(decrypted.value)
         IN  IF encrypted_data = B64Encode(<<>>) THEN CountVotesBreak(Tail(entries), acc)
             ELSE IF decrypted.raised THEN acc
             ELSE IF vote_data.raised THEN acc
             ELSE IF vote_data.candidate \in DOMAIN acc.vote_counts
             THEN CountVotesBreak(Tail(entries),
                     [vote_counts |-> [acc.vote_counts EXCEPT ![vote_data.candidate] = @ + 1],
                      total_votes |-> acc.total_votes + 1])
             ELSE CountVotesBreak(Tail(entries), acc)

\* Mutant: every record that decrypts to a payload is counted in the total.
RECURSIVE CountVotesAll(_, _)
CountVotesAll(entries, acc) ==
    IF entries = <<>> THEN acc
    ELSE LET encrypted_data == Head(entries).encrypted_vote
             decrypted == DecryptVote(encrypted_data)
             vote_data == JsonLoadsCandidate(decrypted.value)
         IN  IF encrypted_data = B64Encode(<<>>) THEN CountVotesAll(Tail(entries), acc)
             ELSE IF decrypted.raised THEN CountVotesAll(Tail(entries), acc)
             ELSE IF vote_data.raised THEN CountVotesAll(Tail(entries), acc)
             ELSE IF vote_data.candidate \in DOMAIN acc.vote_counts
             THEN CountVotesAll(Tail(entries),
                     [vote_counts |-> [acc.vote_counts EXCEPT ![vote_data.candidate] = @ + 1],
                      total_votes |-> acc.total_votes + 1])
             ELSE CountVotesAll(Tail(entries),
                     [acc EXCEPT !.total_votes = @ + 1])

\* Mutant: total_votes counts every entry the loops visit.
RECURSIVE CountVotesEveryEntry(_, _)
CountVotesEveryEntry(entries, acc) ==
    IF entries = <<>> THEN acc
    ELSE LET encrypted_data == Head(entries).encrypted_vote
             decrypted == DecryptVote(encrypted_data)
             vote_data == JsonLoadsCandidate(decrypted.value)
             seen == [acc EXCEPT !.total_votes = @ + 1]
         IN  IF encrypted_data = B64Encode(<<>>) THEN CountVotesEveryEntry(Tail(entries), seen)
             ELSE IF decrypted.raised THEN CountVotesEveryEntry(Tail(entries), seen)
             ELSE IF vote_data.raised THEN CountVotesEveryEntry(Tail(entries), seen)
             ELSE IF vote_data.candidate \in DOMAIN acc.vote_counts
             THEN CountVotesEveryEntry(Tail(entries),
                     [vote_counts |-> [acc.vote_counts EXCEPT ![vote_data.candidate] = @ + 1],
                      total_votes |-> acc.total_votes + 1])
             ELSE CountVotesEveryEntry(Tail(entries), seen)

\* The loop body of results over the vote entries, in order; acc holds
\* vote_counts and total_votes.
RECURSIVE CountVotes(_, _)
CountVotes(entries, acc) ==
    IF entries = <<>> THEN acc
    ELSE LET encrypted_data == Head(entries).encrypted_vote
             decrypted == DecryptVote(encrypted_data)
             vote_data == JsonLoadsCandidate(decrypted.value)
         IN  IF encrypted_data = B64Encode(<<>>) THEN CountVotes(Tail(entries), acc)
             ELSE IF decrypted.raised THEN CountVotes(Tail(entries), acc)
             ELSE IF vote_data.raised THEN CountVotes(Tail(entries), acc)
             ELSE IF vote_data.candidate \in DOMAIN acc.vote_counts
             THEN CountVotes(Tail(entries),
                     [vote_counts |-> [acc.vote_counts EXCEPT ![vote_data.candidate] = @ + 1],
                      total_votes |-> acc.total_votes + 1])
             ELSE CountVotes(Tail(entries), acc)

\* The entries the two for loops visit: the votes of the blocks, in order.
RECURSIVE VoteEntries(_, _)
VoteEntries(blocks, h) ==
    IF blocks = <<>> THEN <<>>
    ELSE h[Head(blocks).votes] \o VoteEntries(Tail(blocks), h)

\* Mutant: the percentage is cut to one decimal instead of rounded.
PercentTruncated(count, total_votes) == (1000 * count) \div total_votes

\* round((count / total_votes) * 100, 1), in tenths of a percent: to the
\* nearest tenth, a tie to the even one.
Percent(count, total_votes) ==
    LET q == (1000 * count) \div total_votes
        r == (1000 * count) % total_votes
    IN  IF 2 * r > total_votes \/ (2 * r = total_votes /\ q % 2 = 1) THEN q + 1 ELSE q

\* Mutant: the genesis block is skipped by removing it from the chain.
ResultsOnPopGenesis(st, total_users) ==
    [chain |-> Tail(st.chain),
     current_transactions |-> st.current_transactions,
     heap |-> st.heap,
     page |-> [chain_valid |-> TRUE,
               vote_counts |-> [c \in VOTING_OPTIONS |-> 0],
               vote_percentages |-> [c \in VOTING_OPTIONS |-> 0],
               total_votes |-> 0,
               total_users |-> total_users]]

\* Mutant: an invalid chain is not tallied.
ResultsOnValidOnly(st, total_users) ==
    LET chain_valid ==
            IsChainValid([i \in 1..Len(st.chain) |->
                             [st.chain[i] EXCEPT !.votes = st.heap[st.chain[i].votes]]])
        counted == IF chain_valid
                   THEN CountVotes(VoteEntries(Tail(st.chain), st.heap),
                                   [vote_counts |-> [c \in VOTING_OPTIONS |-> 0],
                                    total_votes |-> 0])
                   ELSE [vote_counts |-> [c \in VOTING_OPTIONS |-> 0], total_votes |-> 0]
        vote_percentages ==
            IF counted.total_votes > 0
            THEN [c \in VOTING_OPTIONS |-> Percent(counted.vote_counts[c], counted.total_votes)]
            ELSE [c \in VOTING_OPTIONS |-> 0]
    IN  [chain |-> st.chain,
         current_transactions |-> st.current_transactions,
         heap |-> st.heap,
         page |-> [chain_valid |-> chain_valid,
                   vote_counts |-> counted.vote_counts,
                   vote_percentages |-> vote_percentages,
                   total_votes |-> counted.total_votes,
                   total_users |-> total_users]]

\* The results route on the ledger `st`: the ledger after it, and the values
\* it hands to the template (percentages in tenths of a percent).
ResultsOn(st, total_users) ==
    LET chain_valid ==
            IsChainValid([i \in 1..Len(st.chain) |->
                             [st.chain[i] EXCEPT !.votes = st.heap[st.chain[i].votes]]])
        counted == CountVotes(VoteEntries(Tail(st.chain), st.heap),
                              [vote_counts |-> [c \in VOTING_OPTIONS |-> 0],
                               total_votes |-> 0])
        vote_percentages ==
            IF counted.total_votes > 0
            THEN [c \in VOTING_OPTIONS |-> Percent(counted.vote_counts[c], counted.total_votes)]
            ELSE [c \in VOTING_OPTIONS |-> 0]
    IN  [chain |-> st.chain,
         current_transactions |-> st.current_transactions,
         heap |-> st.heap,
         page |-> [chain_valid |-> chain_valid,
                   vote_counts |-> counted.vote_counts,
                   vote_percentages |-> vote_percentages,
                   total_votes |-> counted.total_votes,
                   total_users |-> total_users]]

\* GET /results by a logged-in user.
Results ==
    /\ \E session \in Sessions : session # ""
    /\ \E after \in {ResultsOn([chain |-> chain,
                                 current_transactions |-> current_transactions,
                                 heap |-> heap],
                                Cardinality({u \in Users : users_db[u].registered}))} :
          /\ chain' = after.chain
          /\ current_transactions' = after.current_transactions
          /\ heap' = after.heap
          /\ ret' = [op |-> "results", val |-> after.page]
    /\ UNCHANGED <<now, submitted>>
    /\ UNCHANGED pure_vars
    /\ UNCHANGED app_vars

\* POST /vote by the logged-in user `session` with a candidate of the form,
\* run to its end: the checks, encrypt_vote, new_vote_transaction, the proof
\* search, new_block, has_voted.  A request the checks turn away changes
\* nothing.
Vote(session, candidate) ==
    /\ session # ""
    /\ ~users_db[session].has_voted
    /\ candidate # ""
    /\ candidate \in VOTING_OPTIONS
    /\ Len(submitted) < MaxVotes
    /\ Len(chain) < MaxChain
    /\ \E iv \in IVs, h \in Handles, t1 \in now..MaxTime :
          \E t2 \in t1..MaxTime :
             LET encrypted_vote == EncryptVote(JsonDumpsVoteData(candidate), iv)
                 record == [encrypted_vote |-> encrypted_vote,
                            voter_hash |-> h,
                            submission_time |-> t1]
                 submitted_heap == [heap EXCEPT ![current_transactions] = Append(@, record)]
                 last_block == LastBlock
                 proof == ProofOfVote(last_block.proof)
                 previous_hash ==
                     Hash([last_block EXCEPT !.votes = submitted_heap[last_block.votes]])
             IN  \E after \in {NewBlockOn([chain |-> chain,
                                             current_transactions |-> current_transactions,
                                             heap |-> submitted_heap],
                                            proof, previous_hash, t2)} :
                    /\ chain' = after.chain
                    /\ current_transactions' = after.current_transactions
                    /\ heap' = after.heap
                    /\ now' = t2
                    /\ ret' = [op |-> "new_block", val |-> after.block]
                    /\ submitted' = Append(submitted,
                                           [record |-> record, promised |-> SubmitResult,
                                            by |-> session])
    /\ users_db' = [users_db EXCEPT ![session].has_voted = TRUE]
    /\ UNCHANGED req
    /\ UNCHANGED pure_vars

\* POST /vote with the session cookie of a username that is not in users_db
\* (the cookie is signed with the fixed secret_key and outlives users_db):
\* users_db.get finds no has_voted, the vote is submitted and sealed, and
\* users_db[username]['has_voted'] = True raises KeyError.
VoteStaleSession(session, candidate) ==
    /\ ~users_db[session].registered
    /\ candidate # ""
    /\ candidate \in VOTING_OPTIONS
    /\ Len(submitted) < MaxVotes
    /\ Len(chain) < MaxChain
    /\ \E iv \in {[i \in 1..BlockSize |-> i]}, h \in Handles, t1 \in now..MaxTime :
          \E t2 \in t1..MaxTime :
             LET encrypted_vote == EncryptVote(JsonDumpsVoteData(candidate), iv)
                 record == [encrypted_vote |-> encrypted_vote,
                            voter_hash |-> h,
                            submission_time |-> t1]
                 submitted_heap == [heap EXCEPT ![current_transactions] = Append(@, record)]
                 last_block == LastBlock
                 proof == ProofOfVote(last_block.proof)
                 previous_hash ==
                     Hash([last_block EXCEPT !.votes = submitted_heap[last_block.votes]])
             IN  \E after \in {NewBlockOn([chain |-> chain,
                                             current_transactions |-> current_transactions,
                                             heap |-> submitted_heap],
                                            proof, previous_hash, t2)} :
                    /\ chain' = after.chain
                    /\ current_transactions' = after.current_transactions
                    /\ heap' = after.heap
                    /\ now' = t2
                    /\ ret' = [op |-> "vote_failed", val |-> [at |-> "has_voted"]]
                    /\ submitted' = Append(submitted,
                                           [record |-> record, promised |-> SubmitResult,
                                            by |-> session])
    /\ UNCHANGED <<users_db, req>>
    /\ UNCHANGED pure_vars

\* The strings handed to new_vote_transaction directly: encrypted votes for
\* a candidate of the election and for one outside it, an encrypted vote
\* damaged so that decrypt_vote raises, and an encrypted text that is not JSON.
BallotIV == [i \in 1..BlockSize |-> i]

Damaged(encoded) ==
    CHOOSE e \in {B64Encode([B64Decode(encoded) EXCEPT ![pos] = Xor(@, bit)]) :
                     pos \in 1..Len(B64Decode(encoded)), bit \in {1, 2, 4}} :
        DecryptVote(e).raised

TallyEnvelopes ==
    {EncryptVote(JsonDumpsVoteData(c), BallotIV) :
         c \in {"Candidate B - Republican Party", "Write-in"}}
    \cup {Damaged(EncryptVote(JsonDumpsVoteData("Candidate B - Republican Party"), BallotIV)),
          EncryptVote(<<6>>, BallotIV)}

\* The ledger was constructed at time 0; the requests come at MaxTime.
TallyInit ==
    /\ chain = Constructed.chain
    /\ current_transactions = Constructed.current_transactions
    /\ heap = Constructed.heap
    /\ now = MaxTime
    /\ submitted = <<>>
    /\ ret = [op |-> "init", val |-> Constructed.block]
    /\ PureIdle
    /\ AppIdle

\* One user registers and votes; the other records come through the ledger.
TallyNext ==
    \/ \E u \in {"alice"} : Register(u)
    \/ \E session \in Sessions, candidate \in FormCandidates : Vote(session, candidate)
    \/ \E e \in TallyEnvelopes, h \in Handles : Submit(e, h)
    \/ Seal
    \/ Results

SpecTally == TallyInit /\ [][TallyNext]_vars

\* Mutant: the user is marked as having voted before the step that fails.
VoteFailsMarksVoted(session, candidate, at) ==
    /\ session # ""
    /\ ~users_db[session].has_voted
    /\ candidate # ""
    /\ candidate \in VOTING_OPTIONS
    /\ at = "encrypt_vote"
    /\ ret' = [op |-> "vote_failed", val |-> [at |-> at]]
    /\ users_db' = [users_db EXCEPT ![session].has_voted = TRUE]
    /\ UNCHANGED <<chain, current_transactions, heap, now, submitted, req>>
    /\ UNCHANGED pure_vars

\* POST /vote that ends with an exception (the route catches none): either
\* encrypt_vote raises, before anything is recorded, or a step between
\* new_vote_transaction and new_block does (the proof search is interrupted).
VoteFails(session, candidate, at) ==
    /\ session # ""
    /\ ~users_db[session].has_voted
    /\ candidate # ""
    /\ candidate \in VOTING_OPTIONS
    /\ \/ /\ at = "encrypt_vote"
          /\ UNCHANGED <<heap, now, submitted>>
       \/ /\ at = "proof_of_vote"
          /\ Len(submitted) < MaxVotes
          /\ \E iv \in IVs, h \in Handles, t \in now..MaxTime :
                LET record == [encrypted_vote |->
                                   EncryptVote(JsonDumpsVoteData(candidate), iv),
                               voter_hash |-> h,
                               submission_time |-> t]
                IN  /\ heap' = [heap EXCEPT ![current_transactions] = Append(@, record)]
                    /\ now' = t
                    /\ submitted' = Append(submitted,
                                           [record |-> record, promised |-> SubmitResult,
                                            by |-> session])
    /\ ret' = [op |-> "vote_failed", val |-> [at |-> at]]
    /\ UNCHANGED <<chain, current_transactions, users_db, req>>
    /\ UNCHANGED pure_vars

\* Mutant: the entry of an existing username is written again.
RegisterRejectedOverwrites(u) ==
    /\ users_db[u].registered
    /\ users_db' = [users_db EXCEPT ![u] = [registered |-> TRUE, has_voted |-> FALSE]]
    /\ ret' = [op |-> "register_rejected", val |-> [username |-> u]]
    /\ UNCHANGED <<chain, current_transactions, heap, now, submitted, req>>
    /\ UNCHANGED pure_vars

\* POST /register with a username that is in users_db: 'Username already
\* exists', and the redirect back to the form.
RegisterRejected(u) ==
    /\ users_db[u].registered
    /\ ret' = [op |-> "register_rejected", val |-> [username |-> u]]
    /\ UNCHANGED <<chain, current_transactions, heap, now, submitted, users_db, req>>
    /\ UNCHANGED pure_vars

\* users_voted of the admin page: the users with has_voted.
UsersVoted == Cardinality({u \in Users : users_db[u].has_voted})

\* Why the vote route turns a request away, in the order of its checks;
\* "" when it does not.
VoteRejection(session, method, candidate) ==
    IF session = "" THEN "login"
    ELSE IF users_db[session].has_voted THEN "has_voted"
    ELSE IF method # "POST" THEN "form"
    ELSE IF candidate = "" THEN "no_candidate"
    ELSE IF candidate \notin VOTING_OPTIONS THEN "invalid_candidate"
    ELSE ""

\* Mutant: the candidate is checked after new_vote_transaction.
VoteRejectedAfterSubmit(session, method, candidate) ==
    /\ VoteRejection(session, method, candidate) # ""
    /\ ret' = [op |-> "vote_rejected",
               val |-> [why |-> VoteRejection(session, method, candidate)]]
    /\ IF VoteRejection(session, method, candidate) = "invalid_candidate"
       THEN heap' = [heap EXCEPT ![current_transactions] =
                        Append(@, [encrypted_vote |-> 1, voter_hash |-> 1,
                                   submission_time |-> now])]
       ELSE heap' = heap
    /\ UNCHANGED <<chain, current_transactions, now, submitted, users_db, req>>
    /\ UNCHANGED pure_vars

\* A request to /vote that one of the checks turns away: a redirect or the
\* form again, with at most a flash message.
VoteRejected(session, method, candidate) ==
    /\ VoteRejection(session, method, candidate) # ""
    /\ ret' = [op |-> "vote_rejected",
               val |-> [why |-> VoteRejection(session, method, candidate)]]
    /\ UNCHANGED <<chain, current_transactions, heap, now, submitted, users_db, req>>
    /\ UNCHANGED pure_vars

\* POST /register with a new username and an acceptable password, with
\* its answer: the redirect to the login page.
RegisterAccepted(u) ==
    /\ ~users_db[u].registered
    /\ users_db' = [users_db EXCEPT ![u] = [registered |-> TRUE, has_voted |-> FALSE]]
    /\ ret' = [op |-> "register", val |-> [username |-> u]]
    /\ UNCHANGED <<chain, current_transactions, heap, now, submitted, req>>
    /\ UNCHANGED pure_vars

\* The register and vote routes, requests served one at a time and to
\* their end.
RoutesNext ==
    \/ \E u \in Users : RegisterAccepted(u)
    \/ \E u \in Users : RegisterRejected(u)
    \/ \E session \in Sessions, candidate \in FormCandidates : Vote(session, candidate)
    \/ \E session \in Sessions, method \in {"GET", "POST"}, candidate \in FormCandidates :
          VoteRejected(session, method, candidate)
    \/ \E session \in Users, candidate \in FormCandidates :
          VoteStaleSession(session, candidate)

SpecRoutes == TallyInit /\ [][RoutesNext]_vars

\* Vote requests one at a time, some of which fail.
FailNext ==
    \/ \E u \in Users : Register(u)
    \/ \E session \in Sessions, candidate \in FormCandidates : Vote(session, candidate)
    \/ \E session \in Sessions, candidate \in FormCandidates,
          at \in {"encrypt_vote", "proof_of_vote"} : VoteFails(session, candidate, at)

SpecFail == TallyInit /\ [][FailNext]_vars

\* Requests one at a time: registrations, of usernames that exist too, and
\* votes, under a session that users_db does not know too.
AccountsNext ==
    \/ \E u \in Users : Register(u)
    \/ \E u \in Users : RegisterRejected(u)
    \/ \E session \in Sessions, candidate \in FormCandidates : Vote(session, candidate)
    \/ \E session \in Users, candidate \in FormCandidates :
          VoteStaleSession(session, candidate)

SpecAccounts == TallyInit /\ [][AccountsNext]_vars

\* POST /vote by request r, from its checks to the hash of the last block:
\* encrypt_vote, new_vote_transaction, last_block, proof_of_vote, hash.  What
\* is left of the request is new_block and has_voted.
VoteSubmitAndMine(r, session, candidate) ==
    /\ req[r].pc = "idle"
    /\ VoteRejection(session, "POST", candidate) = ""
    /\ \E h \in Handles, t \in now..MaxTime :
          LET encrypted_vote == EncryptVote(JsonDumpsVoteData(candidate), BallotIV)
              record == [encrypted_vote |-> encrypted_vote,
                         voter_hash |-> h,
                         submission_time |-> t]
              submitted_heap == [heap EXCEPT ![current_transactions] = Append(@, record)]
              last_block == LastBlock
          IN  /\ heap' = submitted_heap
              /\ now' = t
              /\ req' = [req EXCEPT ![r] =
                            [pc |-> "build", username |-> session,
                             encrypted_vote |-> encrypted_vote, voter_hash |-> h,
                             pending_list |-> current_transactions,
                             last_block |-> last_block,
                             proof |-> ProofOfVote(last_block.proof),
                             previous_hash |->
                                 Hash([last_block EXCEPT
                                          !.votes = submitted_heap[last_block.votes]]),
                             block |-> <<>>,
                             pending_at_seal |-> submitted_heap[current_transactions]]]
    /\ UNCHANGED <<chain, current_transactions, submitted, ret, users_db>>
    /\ UNCHANGED pure_vars

\* The rest of the vote request r: new_block with the proof and the hash the
\* request computed, then has_voted.
VoteSealAndMark(r) ==
    /\ req[r].pc = "build"
    /\ \E t \in now..MaxTime :
          \E after \in {NewBlockOn([chain |-> chain,
                                    current_transactions |-> current_transactions,
                                    heap |-> heap],
                                   req[r].proof, req[r].previous_hash, t)} :
             /\ chain' = after.chain
             /\ current_transactions' = after.current_transactions
             /\ heap' = after.heap
             /\ now' = t
             /\ req' = [req EXCEPT ![r].pc = "done", ![r].block = after.block]
    /\ users_db' = [users_db EXCEPT ![req[r].username].has_voted = TRUE]
    /\ UNCHANGED <<submitted, ret>>
    /\ UNCHANGED pure_vars

\* Vote requests of one user served by threads that switch between the
\* proof search and new_block, and the results route.
RaceNext ==
    \/ \E u \in {"alice"} : Register(u)
    \/ \E r \in Requests, session \in Sessions, candidate \in FormCandidates :
          VoteSubmitAndMine(r, session, candidate)
    \/ \E r \in Requests : VoteSealAndMark(r)
    \/ Results

SpecRace == TallyInit /\ [][RaceNext]_vars

----------------------------------------------------------------------------
(* LoginManager: the login attempts of each username *)

max_login_attempts == 3

\* The failed attempts tracked per username (the count has no limit in the
\* program).
MaxAttempts == 4

\* The entry after track_login_attempt, with the lock set only above
\* max_login_attempts.  Mutant.
TrackedEntryLocksLate(entry, success, t) ==
    IF success
    THEN [tracked |-> TRUE, count |-> 0, last_attempt |-> <<t>>, locked |-> FALSE]
    ELSE [tracked |-> TRUE,
          count |-> entry.count + 1,
          last_attempt |-> <<t>>,
          locked |-> IF entry.count + 1 > max_login_attempts THEN TRUE ELSE entry.locked]

\* The entry of a username after track_login_attempt(username, success) at
\* time t; `entry` is its entry before (made with count 0 when there was none).
TrackedEntry(entry, success, t) ==
    IF success
    THEN [tracked |-> TRUE, count |-> 0, last_attempt |-> <<t>>, locked |-> FALSE]
    ELSE [tracked |-> TRUE,
          count |-> entry.count + 1,
          last_attempt |-> <<t>>,
          locked |-> IF entry.count + 1 >= max_login_attempts THEN TRUE ELSE entry.locked]

\* track_login_attempt(username, success)
TrackLoginAttempt(username, success) ==
    /\ success \/ login_attempts[username].count < MaxAttempts
    /\ \E t \in now..MaxTime :
          /\ login_attempts' =
                [login_attempts EXCEPT ![username] = TrackedEntry(@, success, t)]
          /\ now' = t
    /\ ret' = [op |-> "track_login_attempt",
               val |-> [username |-> username, success |-> success]]
    /\ UNCHANGED <<chain, current_transactions, heap, submitted>>
    /\ UNCHANGED <<in_chain, in_last_proof, out_valid, out_proofs, crypt>>
    /\ UNCHANGED app_vars

\* is_account_locked(username)
IsAccountLocked(username) ==
    IF login_attempts[username].tracked THEN login_attempts[username].locked ELSE FALSE

\* unlock_account(username)
UnlockAccount(username) ==
    /\ login_attempts' =
          IF login_attempts[username].tracked
          THEN [login_attempts EXCEPT ![username].locked = FALSE, ![username].count = 0]
          ELSE login_attempts
    /\ ret' = [op |-> "unlock_account", val |-> [username |-> username]]
    /\ UNCHANGED <<chain, current_transactions, heap, now, submitted>>
    /\ UNCHANGED <<in_chain, in_last_proof, out_valid, out_proofs, crypt>>
    /\ UNCHANGED app_vars

LoginNext ==
    \/ \E username \in Users, success \in BOOLEAN : TrackLoginAttempt(username, success)
    \/ \E username \in Users : UnlockAccount(username)

SpecLogin == Init /\ [][LoginNext]_vars

----------------------------------------------------------------------------
(* Properties of the ledger under complete Submit and Seal calls *)

\* The records of all blocks of the chain c (votes read out), in chain order.
RECURSIVE AllVotes(_)
AllVotes(c) == IF c = <<>> THEN <<>> ELSE Head(c).votes \o AllVotes(Tail(c))

\* For each record of AllVotes(c), the index field of the block holding it.
RECURSIVE VoteBlockIndex(_)
VoteBlockIndex(c) ==
    IF c = <<>> THEN <<>>
    ELSE [k \in 1..Len(Head(c).votes) |-> Head(c).index] \o VoteBlockIndex(Tail(c))

RECURSIVE Records(_)
Records(log) == IF log = <<>> THEN <<>> ELSE <<Head(log).record>> \o Records(Tail(log))

RECURSIVE Promised(_)
Promised(log) == IF log = <<>> THEN <<>> ELSE <<Head(log).promised>> \o Promised(Tail(log))

\* C1: after construction and after any sequence of complete Submit and Seal
\* calls, is_chain_valid(chain) is true: every non-genesis block's
\* previous_hash is the hash of the block before it, and valid_proof holds of
\* the two blocks' proofs.
C1_SealedChainIsValid ==
    /\ IsChainValid(DerefChain)
    /\ \A i \in 2..Len(chain) :
          /\ chain[i].previous_hash = Hash(Deref(chain[i - 1]))
          /\ ValidProof(chain[i - 1].proof, chain[i].proof)

C1_Witness ==
    /\ Len(chain) >= 3
    /\ ret.op = "new_block"
    /\ Deref(chain[2]).votes # <<>>
    /\ chain[3].proof # chain[2].proof

\* C2 (as claimed): in a chain built by Seal, giving any one field (index,
\* timestamp, a vote's ciphertext, proof, previous_hash) of any one non-genesis
\* block, the last block included, a different value makes is_chain_valid false.
FieldMutations(block) ==
    {[block EXCEPT !.index = x] : x \in (1..(MaxChain + 1)) \ {block.index}}
    \cup {[block EXCEPT !.timestamp = x] : x \in (0..(MaxTime + 1)) \ {block.timestamp}}
    \cup {[block EXCEPT !.proof = x] : x \in (0..DigestRange) \ {block.proof}}
    \cup {[block EXCEPT !.previous_hash = x] :
              x \in {<<1>>, <<0>>, Hash(block)} \ {block.previous_hash}}
    \cup UNION {{[block EXCEPT !.votes[k].encrypted_vote = x] :
                     x \in (Envelopes \cup {0}) \ {block.votes[k].encrypted_vote}} :
                 k \in 1..Len(block.votes)}

C2_EveryMutationDetected ==
    \A i \in 2..Len(chain) :
        \A mutated \in FieldMutations(DerefChain[i]) :
            ~IsChainValid([DerefChain EXCEPT ![i] = mutated])

\* C3: every record accepted by Submit is in exactly one place: the records of
\* the blocks, in chain order, followed by the pending queue, are exactly the
\* accepted records in submission order (none lost, none twice, none both
\* pending and sealed), and right after a Seal nothing is pending.
C3_EveryVoteInExactlyOnePlace ==
    /\ AllVotes(DerefChain) \o Pending = Records(submitted)
    /\ (ret.op = "new_block" => Pending = <<>>)

C3_Witness ==
    /\ Len(chain) >= 3
    /\ ret.op = "new_block"
    /\ Len(Deref(chain[2]).votes) = 2
    /\ Len(Deref(chain[3]).votes) >= 1
    /\ Deref(chain[3]).votes[1] = Deref(chain[2]).votes[1]

\* C4: a Seal appends exactly one block, whose votes are the records that
\* were pending when it was called, in submission order; it leaves the
\* pending queue empty and returns the block it appended.
C4_SealTakesThePendingQueue ==
    [][ret'.op = "new_block" =>
          /\ Len(chain') = Len(chain) + 1
          /\ SubSeq(chain', 1, Len(chain)) = chain
          /\ Deref(LastBlock)'.votes = Pending
          /\ Pending' = <<>>
          /\ ret'.val = LastBlock']_vars

C4_Witness ==
    /\ ret.op = "new_block"
    /\ Len(Deref(LastBlock).votes) = 2
    /\ Deref(LastBlock).votes[1] # Deref(LastBlock).votes[2]
    /\ Pending = <<>>

\* C5 (as claimed): sealing is atomic with respect to Submit: a record that
\* another request submits after a request has read the last block to seal is
\* not in the block that request appends; the block holds exactly the records
\* that were pending when the sealing began.
C5_SealExcludesLaterSubmits ==
    \A r \in Requests :
        req[r].pc \in {"mark", "done"} =>
            Deref(req[r].block).votes = req[r].pending_at_seal

\* C6: Submit appends one record to the pending queue and returns the chain
\* length + 1, and every sealed record is in the block whose index is the
\* value Submit returned for it.
C6_SubmitReturnsLandingBlock ==
    [][/\ ret'.op = "new_vote_transaction" =>
             /\ Len(Pending') = Len(Pending) + 1
             /\ SubSeq(Pending', 1, Len(Pending)) = Pending
             /\ ret'.val = Len(chain) + 1
             /\ submitted'[Len(submitted')].promised = ret'.val
             /\ submitted'[Len(submitted')].record = Pending'[Len(Pending')]
       /\ VoteBlockIndex(DerefChain') =
             SubSeq(Promised(submitted'), 1, Len(AllVotes(DerefChain')))]_vars

C6_Witness ==
    /\ ret.op = "new_block"
    /\ Len(chain) >= 3
    /\ Deref(chain[2]).votes # <<>>
    /\ Deref(chain[3]).votes # <<>>
    /\ Promised(submitted)[Len(submitted)] = 3

\* C7: the chain is append-only and its blocks never change: a step of the
\* ledger keeps every block of the chain, all its fields and its votes, at
\* its position, and adds at most one block at the end.
C7_AppendOnly ==
    [][/\ Len(chain') \in {Len(chain), Len(chain) + 1}
       /\ SubSeq(chain', 1, Len(chain)) = chain
       /\ SubSeq(DerefChain', 1, Len(chain)) = DerefChain]_vars

C7_Witness ==
    /\ Len(chain) >= 3
    /\ ret.op = "new_vote_transaction"
    /\ Deref(chain[3]).votes # <<>>
    /\ Len(Pending) = 2

\* C8: the chain is never empty, its first block is the genesis block
\* (index 1, proof 100, previous_hash "1", no votes), and the pending queue
\* is empty right after construction.
C8_GenesisAlwaysFirst ==
    /\ Len(chain) >= 1
    /\ chain[1].index = 1
    /\ chain[1].proof = 100
    /\ chain[1].previous_hash = <<1>>
    /\ Deref(chain[1]).votes = <<>>
    /\ (ret.op = "init" => Pending = <<>> /\ Len(chain) = 1)

C8_Witness ==
    /\ Len(chain) >= 3
    /\ ret.op = "new_vote_transaction"
    /\ Deref(chain[2]).votes # <<>>

\* C9: for every chain, valid or not, of any length, is_chain_valid returns
\* true exactly when every block after the first has as previous_hash the hash
\* of the block before it and a proof that valid_proof accepts after that
\* block's proof; it returns true for a chain of 0 or 1 blocks, and it always
\* returns a boolean.
C9_ValidateIsPairwiseCheck ==
    out_valid # "unset" =>
        /\ out_valid \in {"True", "False"}
        /\ (out_valid = "True") <=>
               \A i \in 2..Len(in_chain) :
                   /\ in_chain[i].previous_hash = Hash(in_chain[i - 1])
                   /\ ValidProof(in_chain[i - 1].proof, in_chain[i].proof)
        /\ (Len(in_chain) <= 1 => out_valid = "True")

C9_Witness ==
    /\ out_valid = "False"
    /\ Len(in_chain) = 3
    /\ in_chain[2].previous_hash = Hash(in_chain[1])
    /\ ValidProof(in_chain[1].proof, in_chain[2].proof)
    /\ in_chain[3].previous_hash = Hash(in_chain[2])
    /\ ~ValidProof(in_chain[2].proof, in_chain[3].proof)

\* C10: proof_of_vote(p) returns the smallest non-negative integer n that
\* valid_proof(p, n) accepts, and every call with the same p returns the
\* same value.
C10_SmallestProof ==
    \A k \in 1..Len(out_proofs) :
        /\ out_proofs[k] >= 0
        /\ ValidProof(in_last_proof, out_proofs[k])
        /\ \A m \in 0..(out_proofs[k] - 1) : ~ValidProof(in_last_proof, m)
        /\ out_proofs[k] = out_proofs[1]

C10_Witness ==
    /\ Len(out_proofs) = 2
    /\ in_last_proof = 100
    /\ out_proofs[2] >= 3

----------------------------------------------------------------------------
(* Properties of the proof search and of concurrent vote requests *)

\* The iteration cap a deployment would configure for the proof search.
ProofCap == 3

\* C11 (as claimed): the proof search stops after ProofCap candidates: a block
\* is appended only when one of the first ProofCap candidates (0 .. ProofCap-1)
\* is a valid proof after the previous block's proof; otherwise the search
\* reports ProofNotFound and no block is appended.
C11_SearchStopsAtCap ==
    \A i \in 2..Len(chain) :
        \E n \in 0..(ProofCap - 1) : ValidProof(chain[i - 1].proof, n)

\* The vote requests of user u whose record has been appended to a list of
\* the ledger (new_vote_transaction has run).
VotesCastBy(u) ==
    {r \in Requests :
        /\ req[r].username = u
        /\ req[r].pc \in {"read_last", "mine", "build", "reset",
                          "chain_append", "mark", "done"}}

\* C12 (as claimed): for every user, at most one vote cast by that user's
\* vote requests is recorded in the ledger, for any interleaving of requests,
\* two requests of one user in flight at the same time included.
C12_OneVotePerUser ==
    \A u \in Users : Cardinality(VotesCastBy(u)) <= 1

\* C20 (as claimed): whatever the interleaving of the vote requests, once
\* they have all ended the chain satisfies is_chain_valid: every block was
\* appended with the hash and a proof of the block that was last when it was
\* appended.
C20_ConcurrentChainIsValid ==
    (\A r \in Requests : req[r].pc \in {"idle", "rejected", "done"}) =>
        IsChainValid(DerefChain)

----------------------------------------------------------------------------
(* Properties of the results route *)

\* The candidate named by the payload the encrypted vote e decrypts to, as a
\* set: empty when e does not decrypt or the payload is not JSON.
Named(e) ==
    LET decrypted == DecryptVote(e)
        vote_data == JsonLoadsCandidate(decrypted.value)
    IN  IF decrypted.raised THEN {}
        ELSE IF vote_data.raised THEN {}
        ELSE {vote_data.candidate}

\* The encrypted vote e decrypts to a payload that names candidate c.
NamesCandidate(e, c) == c \in Named(e)

\* The sealed records (those of the blocks after the genesis block), each as
\* <<block, position, what it names>>.
SealedNamed ==
    UNION {{<<i, k, Named(heap[chain[i].votes][k].encrypted_vote)>> :
               k \in 1..Len(heap[chain[i].votes])} :
           i \in 2..Len(chain)}

\* The sealed records that name candidate c.
SealedVotesFor(c) == {v \in SealedNamed : c \in v[3]}

\* C13: the results route counts exactly the sealed votes: every candidate of
\* VOTING_OPTIONS has as count the number of records in non-genesis blocks
\* that decrypt to a payload naming it, and the total is the number of such
\* records; the genesis block, pending records and records naming another
\* candidate are in no count.
C13_TallyCountsSealedVotes ==
    ret.op = "results" =>
        \A sealed \in {SealedNamed} :
            /\ DOMAIN ret.val.vote_counts = VOTING_OPTIONS
            /\ \A c \in VOTING_OPTIONS :
                  ret.val.vote_counts[c] = Cardinality({v \in sealed : c \in v[3]})
            /\ ret.val.total_votes =
                  Cardinality({v \in sealed : v[3] \cap VOTING_OPTIONS # {}})

C13_Witness ==
    /\ ret.op = "results"
    /\ Cardinality(SealedVotesFor("Candidate A - Democratic Party")) = 1
    /\ Cardinality(SealedVotesFor("Write-in")) = 1
    /\ Len(Pending) = 1
    /\ NamesCandidate(Pending[1].encrypted_vote, "Candidate B - Republican Party")
    /\ ret.val.vote_counts["Candidate B - Republican Party"] = 0
    /\ ret.val.total_votes = 1

\* The vote entry can be processed: it decrypts and its payload is JSON.
Processable(entry) == Named(entry.encrypted_vote) # {}

\* C14: a record that does not decrypt or whose payload is malformed does not
\* end the tally: the page is computed, and its counts and total are those of
\* the same entries with the bad records left out.
C14_BadRecordsAreSkipped ==
    ret.op = "results" =>
        LET entries == VoteEntries(Tail(chain), heap)
            good == SelectSeq(entries, Processable)
            clean == CountVotes(good, [vote_counts |-> [c \in VOTING_OPTIONS |-> 0],
                                       total_votes |-> 0])
        IN  /\ ret.val.vote_counts = clean.vote_counts
            /\ ret.val.total_votes = clean.total_votes
            /\ ret.val.total_votes <= Len(good)

C14_Witness ==
    /\ ret.op = "results"
    /\ Len(chain) = 2
    /\ Len(DerefChain[2].votes) = 3
    /\ Processable(DerefChain[2].votes[1])
    /\ ~Processable(DerefChain[2].votes[2])
    /\ DecryptVote(DerefChain[2].votes[2].encrypted_vote).raised
    /\ Processable(DerefChain[2].votes[3])
    /\ ret.val.total_votes = 2

\* C15: when total_votes is 0 every percentage is 0; otherwise each percentage
\* (in tenths of a percent) is the tenth nearest to count / total_votes * 100.
C15_Percentages ==
    ret.op = "results" =>
        \A c \in VOTING_OPTIONS :
            LET count == ret.val.vote_counts[c]
                total_votes == ret.val.total_votes
                tenths == ret.val.vote_percentages[c]
                diff == tenths * total_votes - 1000 * count
            IN  IF total_votes = 0 THEN tenths = 0
                ELSE /\ 2 * diff <= total_votes
                     /\ 2 * diff >= 0 - total_votes

C15_Witness ==
    /\ ret.op = "results"
    /\ ret.val.total_votes = 3
    /\ ret.val.vote_counts["Candidate B - Republican Party"] = 2
    /\ ret.val.vote_counts["Candidate A - Democratic Party"] = 1
    /\ ret.val.vote_percentages["Candidate B - Republican Party"] = 667
    /\ ret.val.vote_percentages["Candidate A - Democratic Party"] = 333
    /\ ret.val.vote_percentages["Abstain"] = 0

\* C19: the results route, with the is_chain_valid call it makes, is
\* read-only: a step of it leaves the chain, every list of votes, the pending
\* queue and users_db (every has_voted flag) as they were, however often it
\* runs and whatever it computes.
C19_ResultsIsReadOnly ==
    [][(ret'.op = "results" /\ Results) =>
          /\ chain' = chain
          /\ heap' = heap
          /\ current_transactions' = current_transactions
          /\ users_db' = users_db]_vars

C19_Witness ==
    /\ ret.op = "results"
    /\ \E u \in Users : users_db[u].has_voted
    /\ Len(chain) >= 3
    /\ Pending # <<>>
    /\ ret.val.chain_valid

\* C18: a vote request that fails neither loses nor half-records a vote.
\* When encrypt_vote raises, the chain, the pending queue and users_db are
\* unchanged.  When a step after new_vote_transaction fails, the record is
\* at the end of the pending queue and the chain is unchanged.  Every record
\* accepted is in one place, a block or the pending queue, and the next vote
\* request that succeeds seals every pending record, in order, with its own.
C18_FailedVoteLosesNothing ==
    [][/\ (ret'.op = "vote_failed" /\ ret' # ret /\ ret'.val.at = "encrypt_vote") =>
              /\ chain' = chain
              /\ heap' = heap
              /\ current_transactions' = current_transactions
              /\ users_db' = users_db
       /\ (ret'.op = "vote_failed" /\ submitted' # submitted) =>
              /\ chain' = chain
              /\ Pending' = Append(Pending, submitted'[Len(submitted')].record)
       /\ AllVotes(DerefChain') \o Pending' = Records(submitted')
       /\ (ret'.op = "new_block" /\ chain' # chain) =>
              /\ Pending' = <<>>
              /\ Deref(LastBlock)'.votes =
                    Append(Pending, submitted'[Len(submitted')].record)]_vars

C18_Witness ==
    /\ ret.op = "new_block"
    /\ Len(chain) = 3
    /\ Len(Deref(chain[2]).votes) = 2
    /\ Len(Deref(chain[3]).votes) = 1
    /\ Pending = <<>>
    /\ Len(submitted) = 3

----------------------------------------------------------------------------
(* Properties of VoteCrypto *)

\* C16: for every plaintext and every IV, decrypt_vote of what encrypt_vote
\* returned, under the same key, returns exactly that plaintext (and does
\* not raise).
C16_RoundTrip ==
    (crypt.pc = "decrypted" /\ crypt.received = crypt.encrypted) =>
        /\ ~crypt.decrypted.raised
        /\ crypt.decrypted.value = crypt.vote_data

C16_Witness ==
    /\ crypt.pc = "decrypted"
    /\ crypt.received = crypt.encrypted
    /\ Len(crypt.vote_data) = MaxPlainLen
    /\ 6 \in {crypt.vote_data[i] : i \in 1..Len(crypt.vote_data)}
    /\ crypt.decrypted.value = crypt.vote_data

\* C17 (as claimed): when any part of an encrypted vote, IV or ciphertext, has
\* been changed, decrypt_vote raises; it never returns a plaintext.
C17_TamperingDetected ==
    (crypt.pc = "decrypted" /\ crypt.received # crypt.encrypted) =>
        crypt.decrypted.raised

----------------------------------------------------------------------------
(* Properties of the vote route under concurrent requests *)

\* The records of the block that new_block returned to request r, as a
\* reader of that block sees them.
ReportedVotes(r) == heap[req[r].block.votes]

\* C21 (as claimed): for every vote request that has got its block back from
\* new_block, whatever the interleaving with other vote requests, that block
\* (the one named in 'Your vote was recorded in Block #n') holds the record
\* the same request submitted.
C21_ReportedBlockHoldsOwnVote ==
    \A r \in Requests :
        req[r].pc \in {"mark", "done"} =>
            \E k \in 1..Len(ReportedVotes(r)) :
                /\ ReportedVotes(r)[k].encrypted_vote = req[r].encrypted_vote
                /\ ReportedVotes(r)[k].voter_hash = req[r].voter_hash

\* C22 (as claimed): in every reachable state, for any sequence or
\* interleaving of new_block calls, the k-th block of the chain has index k:
\* no two blocks share an index and no index is skipped.
C22_IndicesArePositions ==
    \A k \in 1..Len(chain) : chain[k].index = k

----------------------------------------------------------------------------
(* Properties of the routes, requests served one at a time *)

\* A record that a vote request of user u submitted is in a sealed block:
\* the k-th record accepted is the k-th record of the chain.
HasSealedVote(u) ==
    \E sealed \in {AllVotes(DerefChain)} :
        \E k \in 1..Len(sealed) :
            /\ k <= Len(submitted)
            /\ submitted[k].by = u
            /\ submitted[k].record = sealed[k]

C24_TallyWhateverValidity ==
    [][Results =>
          \A sealed \in {SealedNamed} :
             /\ ret'.op = "results"
             /\ ret'.val.chain_valid = IsChainValid(DerefChain)
             /\ \A c \in VOTING_OPTIONS :
                   ret'.val.vote_counts[c] = Cardinality({v \in sealed : c \in v[3]})
             /\ ret'.val.total_votes =
                   Cardinality({v \in sealed : v[3] \cap VOTING_OPTIONS # {}})]_vars

C24_Witness ==
    /\ ret.op = "results"
    /\ ~IsChainValid(DerefChain)
    /\ ~ret.val.chain_valid
    /\ ret.val.total_votes >= 2
    /\ ret.val.vote_counts["Abstain"] >= 1

\* C25: a vote request that is turned away (no login, has_voted already, no
\* candidate, a candidate outside VOTING_OPTIONS) changes nothing: the chain,
\* the pending queue and every has_voted flag are as they were.
C25_RejectedVoteChangesNothing ==
    [][ret'.op = "vote_rejected" =>
          /\ chain' = chain
          /\ current_transactions' = current_transactions
          /\ heap' = heap
          /\ Pending' = Pending
          /\ \A u \in Users : users_db'[u] = users_db[u]]_vars

C25_Witness ==
    /\ ret = [op |-> "vote_rejected", val |-> [why |-> "invalid_candidate"]]
    /\ users_db["alice"].has_voted
    /\ users_db["bob"].registered
    /\ ~users_db["bob"].has_voted
    /\ Len(chain) = 2
    /\ Len(heap[chain[2].votes]) = 1

\* C26 (as claimed): with vote requests served one at a time, every accepted
\* request submits one vote and seals one block: after every request the
\* pending queue is empty, every block after the genesis block holds exactly one vote, and
\* chain length = 1 + accepted votes = 1 + users with has_voted.
C26_OneVoteOneBlock ==
    /\ Pending = <<>>
    /\ \A i \in 2..Len(chain) : Len(heap[chain[i].votes]) = 1
    /\ Len(chain) = 1 + Len(submitted)
    /\ Len(chain) = 1 + UsersVoted

\* The sum of the counts f over the candidates S.
RECURSIVE SumOfCounts(_, _)
SumOfCounts(f, S) ==
    IF S = {} THEN 0
    ELSE LET c == CHOOSE x \in S : TRUE
         IN  f[c] + SumOfCounts(f, S \ {c})

\* The number of vote records in the blocks after the genesis block.
SealedRecords == Len(VoteEntries(Tail(chain), heap))

\* C27: in the tally the total is the sum of the counts of the candidates,
\* and it is at most the number of vote records in the non-genesis blocks.
C27_TotalIsSumOfCounts ==
    ret.op = "results" =>
        /\ ret.val.total_votes = SumOfCounts(ret.val.vote_counts, DOMAIN ret.val.vote_counts)
        /\ ret.val.total_votes <= SealedRecords

C27_Witness ==
    /\ ret.op = "results"
    /\ ret.val.total_votes = 2
    /\ ret.val.vote_counts["Candidate A - Democratic Party"] = 1
    /\ ret.val.vote_counts["Candidate B - Republican Party"] = 1
    /\ SealedRecords = 3

----------------------------------------------------------------------------
(* Frame properties of the ledger *)

\* C28: new_vote_transaction changes only the pending queue: it adds exactly
\* one record, the one made of its arguments, at the end, keeps the earlier
\* pending records in their order, and leaves the chain unchanged, the votes
\* of the block sealed last included.
C28_SubmitChangesOnlyTheQueue ==
    [][ret'.op = "new_vote_transaction" =>
          /\ Len(Pending') = Len(Pending) + 1
          /\ SubSeq(Pending', 1, Len(Pending)) = Pending
          /\ \E e \in Envelopes, h \in Handles :
                /\ Pending'[Len(Pending')].encrypted_vote = e
                /\ Pending'[Len(Pending')].voter_hash = h
                /\ Pending'[Len(Pending')].submission_time = now'
          /\ current_transactions' = current_transactions
          /\ chain' = chain
          /\ DerefChain' = DerefChain
          /\ Deref(LastBlock)'.votes = Deref(LastBlock).votes]_vars

C28_Witness ==
    /\ ret.op = "new_vote_transaction"
    /\ Len(chain) = 2
    /\ Len(Deref(LastBlock).votes) = 1
    /\ Len(Pending) = 2
    /\ Pending[1] # Pending[2]
    /\ Pending[2] = Deref(LastBlock).votes[1]

\* C29: proof_of_vote (and valid_proof, which it calls) reads nothing but
\* its argument and changes no ledger state: the chain, the pending queue and
\* every list are the same after the search as before it, however many
\* candidates it tried, and calls with the same argument made in different
\* ledger states return the same proof.
C29_ProofSearchIsPure ==
    /\ [][ret'.op = "proof_of_vote" =>
             /\ chain' = chain
             /\ current_transactions' = current_transactions
             /\ heap' = heap
             /\ Pending' = Pending
             /\ DerefChain' = DerefChain]_vars
    /\ [](\A k \in 1..Len(out_proofs) : out_proofs[k] = out_proofs[1])

C29_Witness ==
    /\ ret.op = "proof_of_vote"
    /\ Len(out_proofs) = 2
    /\ out_proofs[2] >= 3
    /\ Len(chain) = 2
    /\ Len(Pending) = 1
    /\ Len(Deref(chain[2]).votes) = 1

----------------------------------------------------------------------------
(* Properties of LoginManager *)

\* C30: after any sequence of track_login_attempt and unlock_account calls, a
\* tracked username is locked exactly when its count of failed attempts is
\* at least max_login_attempts, and a username never tracked is not locked; a
\* failed attempt adds one to the count, a successful attempt and
\* unlock_account set the count to 0 and clear the lock.
C30_LockedIffTooManyFailures ==
    /\ [](\A u \in Users :
             IF login_attempts[u].tracked
             THEN IsAccountLocked(u) <=> (login_attempts[u].count >= max_login_attempts)
             ELSE ~IsAccountLocked(u))
    /\ [][\A u \in Users :
             /\ ret' = [op |-> "track_login_attempt",
                        val |-> [username |-> u, success |-> FALSE]]
                   => login_attempts'[u].count = login_attempts[u].count + 1
             /\ ret' = [op |-> "track_login_attempt",
                        val |-> [username |-> u, success |-> TRUE]]
                   => login_attempts'[u].count = 0 /\ ~IsAccountLocked(u)'
             /\ (ret' = [op |-> "unlock_account", val |-> [username |-> u]]
                    /\ login_attempts[u].tracked)
                   => login_attempts'[u].count = 0 /\ ~IsAccountLocked(u)'
             /\ (ret' = [op |-> "unlock_account", val |-> [username |-> u]]
                    /\ ~login_attempts[u].tracked)
                   => ~login_attempts'[u].tracked]_vars

C30_Witness ==
    /\ login_attempts["alice"].count = max_login_attempts
    /\ IsAccountLocked("alice")
    /\ login_attempts["bob"].tracked
    /\ login_attempts["bob"].count = 0
    /\ ~IsAccountLocked("bob")
    /\ ret = [op |-> "unlock_account", val |-> [username |-> "bob"]]

====
